---- MODULE Spec2Model ----
(***************************************************************************)
(* Bulk image resizer (resizer.py, config.py).                             *)
(*                                                                         *)
(* Three state machines share this module:                                 *)
(*   Spec      the batch run of ImageResizer.process_folder over a small   *)
(*             file system, followed by a second run with the same options; *)
(*   SpecName  ImageResizer.generate_output_filename as a pure function;   *)
(*   SpecGeom  the size computation of ImageResizer.resize_image.          *)
(*                                                                         *)
(* A string is a sequence of one-character strings; None and the other     *)
(* falsy values of an option are the empty string, the number 0 or the     *)
(* empty tuple.                                                            *)
(***************************************************************************)
EXTENDS Integers, Sequences, FiniteSets, TLC

VARIABLES fs, opts, run, pc, image_files, idx, counter, processed, failed,
          errors, log, calls, prev, naming, geom

vars == <<fs, opts, run, pc, image_files, idx, counter, processed, failed,
          errors, log, calls, prev, naming, geom>>

batchVars == <<fs, opts, run, pc, image_files, idx, counter, processed,
               failed, errors, log, calls, prev>>

----------------------------------------------------------------------------
(* Bounds of the model.                                                    *)

\* files in the input tree before the first run, and the longest discovered
\* list a run is followed through
MaxFiles == 2

\* largest sequence counter handed to the pure naming function
MaxCounter == 12

\* largest natural width or height of an image
MaxDim == 6

\* largest requested width or height
MaxReq == 4

----------------------------------------------------------------------------
(* Strings.                                                                *)

UpperChars == <<"A","B","C","D","E","F","G","H","I","J","K","L","M",
                "N","O","P","Q","R","S","T","U","V","W","X","Y","Z">>

LowerChars == <<"a","b","c","d","e","f","g","h","i","j","k","l","m",
                "n","o","p","q","r","s","t","u","v","w","x","y","z">>

DigitChars == <<"0","1","2","3","4","5","6","7","8","9">>

IsUpperChar(c) == \E i \in DOMAIN UpperChars : UpperChars[i] = c

IsLowerChar(c) == \E i \in DOMAIN LowerChars : LowerChars[i] = c

LowerChar(c) ==
    IF IsUpperChar(c)
    THEN LowerChars[CHOOSE i \in DOMAIN UpperChars : UpperChars[i] = c]
    ELSE c

UpperChar(c) ==
    IF IsLowerChar(c)
    THEN UpperChars[CHOOSE i \in DOMAIN LowerChars : LowerChars[i] = c]
    ELSE c

\* str.lower()
Lower(s) == [i \in 1..Len(s) |-> LowerChar(s[i])]

\* str.upper()
Upper(s) == [i \in 1..Len(s) |-> UpperChar(s[i])]

\* the 1-based position of the last "." of s, 0 when there is none
\* (str.rfind('.') + 1)
RFindDot(s) ==
    IF \E i \in 1..Len(s) : s[i] = "."
    THEN CHOOSE i \in 1..Len(s) :
            s[i] = "." /\ \A j \in (i+1)..Len(s) : s[j] # "."
    ELSE 0

\* PurePath.suffix: from the last dot on, unless that dot is the first or
\* the last character of the name
PathSuffix(name) ==
    LET i == RFindDot(name)
    IN  IF 1 < i /\ i < Len(name) THEN SubSeq(name, i, Len(name)) ELSE <<>>

\* PurePath.stem: the name without its suffix
PathStem(name) ==
    LET i == RFindDot(name)
    IN  IF 1 < i /\ i < Len(name) THEN SubSeq(name, 1, i - 1) ELSE name

EndsWith(s, t) ==
    /\ Len(t) <= Len(s)
    /\ SubSeq(s, Len(s) - Len(t) + 1, Len(s)) = t

RECURSIVE Digits(_)
\* the decimal digits of n >= 0, most significant first
Digits(n) ==
    IF n < 10 THEN <<DigitChars[n + 1]>>
    ELSE Digits(n \div 10) \o <<DigitChars[(n % 10) + 1]>>

\* the field width of the format specification 04d
PadWidth == 4

RECURSIVE ZeroPad(_, _)
ZeroPad(s, w) == IF Len(s) >= w THEN s ELSE ZeroPad(<<"0">> \o s, w)

\* f"{counter:04d}" for counter >= 0
Format04d(n) == ZeroPad(Digits(n), PadWidth)

----------------------------------------------------------------------------
(* config.py                                                               *)

SUPPORTED_FORMATS ==
    { <<".","j","p","g">>, <<".","j","p","e","g">>, <<".","p","n","g">>,
      <<".","g","i","f">>, <<".","b","m","p">>, <<".","t","i","f","f">>,
      <<".","w","e","b","p">>, <<".","i","c","o">> }

OUTPUT_FORMATS ==
    [ JPEG |-> <<".","j","p","g">>,
      PNG  |-> <<".","p","n","g">>,
      WEBP |-> <<".","w","e","b","p">>,
      BMP  |-> <<".","b","m","p">>,
      GIF  |-> <<".","g","i","f">> ]

----------------------------------------------------------------------------
(* ImageResizer.generate_output_filename                                   *)

\* the mutation of StemParts: the counter is placed before the suffix
StemPartsCounterFirst(stem, prefix, suffix, ctr) ==
    prefix \o stem
    \o (IF ctr # <<>> THEN <<"_">> \o Format04d(ctr[1]) ELSE <<>>)
    \o suffix

\* parts, joined: prefix, stem, suffix and "_" with the counter; ctr is <<>>
\* for counter=None and <<n>> for counter=n
StemParts(stem, prefix, suffix, ctr) ==
    (IF prefix # <<>> THEN prefix ELSE <<>>)
    \o stem
    \o (IF suffix # <<>> THEN suffix ELSE <<>>)
    \o (IF ctr # <<>> THEN <<"_">> \o Format04d(ctr[1]) ELSE <<>>)

\* OUTPUT_FORMATS.get(output_format, '.jpg'), or the lower-cased suffix
OutputExt(name, output_format) ==
    IF output_format # ""
    THEN IF output_format \in DOMAIN OUTPUT_FORMATS
         THEN OUTPUT_FORMATS[output_format]
         ELSE <<".","j","p","g">>
    ELSE Lower(PathSuffix(name))

\* a path is a directory (a tuple of directory names) and a file name
generate_output_filename(name, output_dir, prefix, suffix, ctr, output_format) ==
    [ dir  |-> output_dir,
      name |-> StemParts(PathStem(name), prefix, suffix, ctr)
               \o OutputExt(name, output_format) ]

----------------------------------------------------------------------------
(* ImageResizer.resize_image: the size computation.  A size is <<width,    *)
(* height>>.  The quotients that the code forms in double precision are    *)
(* kept here as exact fractions: for operands up to 8 the two agree on     *)
(* every truncation and on every comparison that is taken below, except    *)
(* where round_aspect compares two distances that are equal as fractions.  *)
(* There the rounding errors of the doubles decide, and tie_up stands for  *)
(* their verdict.                                                          *)

Abs(x) == IF x < 0 THEN -x ELSE x

\* floor(a / b) and ceil(a / b) for a >= 0, b > 0
FloorDiv(a, b) == a \div b

CeilDiv(a, b) == (a + b - 1) \div b

Max(a, b) == IF a >= b THEN a ELSE b

\* int(side * (req / other)): the derived dimension, truncated
ScaledDim(side, req, other) == FloorDiv(side * req, other)

\* "Calculate target size": 0 stands for a width or height that is None
TargetSize(nat, width, height) ==
    IF width # 0 /\ height # 0 THEN <<width, height>>
    ELSE IF width # 0 THEN <<width, ScaledDim(nat[2], width, nat[1])>>
    ELSE IF height # 0 THEN <<ScaledDim(nat[1], height, nat[2]), height>>
    ELSE nat

\* round_aspect(y * aspect, key=lambda n: abs(aspect - n / y)) of
\* Image.thumbnail, aspect = w / h: of floor and ceil the one whose ratio to
\* y is nearer the aspect, and at least 1
RoundAspectX(w, h, y, tie_up) ==
    LET f == FloorDiv(y * w, h)
        c == CeilDiv(y * w, h)
        kf == Abs(w * y - f * h)
        kc == Abs(w * y - c * h)
    IN  Max(IF kc < kf \/ (kc = kf /\ tie_up) THEN c ELSE f, 1)

\* round_aspect(x / aspect, key=lambda n: 0 if n == 0 else abs(aspect - x / n))
RoundAspectY(w, h, x, tie_up) ==
    LET f == FloorDiv(x * h, w)
        c == CeilDiv(x * h, w)
        kf == Abs(w * f - x * h) * c
        kc == Abs(w * c - x * h) * f
    IN  Max(IF f # 0 /\ (kc < kf \/ (kc = kf /\ tie_up)) THEN c ELSE f, 1)

\* the mutation of Thumbnail: an image smaller than the box is enlarged
ThumbnailEnlarging(nat, size, tie_up) ==
    LET w == nat[1]
        h == nat[2]
        x == size[1]
        y == size[2]
    IN  IF y = 0 \/ x = 0 THEN [ok |-> FALSE, size |-> <<>>]
        ELSE IF x * h >= w * y
             THEN [ok |-> TRUE, size |-> <<RoundAspectX(w, h, y, tie_up), y>>]
             ELSE [ok |-> TRUE, size |-> <<x, RoundAspectY(w, h, x, tie_up)>>]

\* img.thumbnail(target_size, LANCZOS): the image is left alone when it is
\* inside the box, and is otherwise resized to the largest size of its
\* aspect ratio inside the box.  A box of height 0 raises ZeroDivisionError
\* and a final size with a side below 1 raises ValueError in resize.
Thumbnail(nat, size, tie_up) ==
    LET w == nat[1]
        h == nat[2]
        x == size[1]
        y == size[2]
        final == IF x * h >= w * y
                 THEN <<RoundAspectX(w, h, y, tie_up), y>>
                 ELSE <<x, RoundAspectY(w, h, x, tie_up)>>
    IN  IF x >= w /\ y >= h THEN [ok |-> TRUE, size |-> nat]
        ELSE IF y = 0 THEN [ok |-> FALSE, size |-> <<>>]
        ELSE IF final = nat THEN [ok |-> TRUE, size |-> nat]
        ELSE IF final[1] < 1 \/ final[2] < 1 THEN [ok |-> FALSE, size |-> <<>>]
        ELSE [ok |-> TRUE, size |-> final]

\* the mutation of FillCrop: the crop starts at the left or top edge
FillCropFromEdge(nat, target) ==
    LET w == nat[1]
        h == nat[2]
    IN  IF w * target[2] > target[1] * h
        THEN <<0, 0, FloorDiv(h * target[1], target[2]), h>>
        ELSE <<0, 0, w, FloorDiv(w * target[2], target[1])>>

\* the crop box (left, upper, right, lower) of mode 'fill', for a target of
\* positive height: img_ratio > target_ratio crops the width, otherwise the
\* height is cropped
FillCrop(nat, target) ==
    LET w == nat[1]
        h == nat[2]
    IN  IF w * target[2] > target[1] * h
        THEN LET new_width == FloorDiv(h * target[1], target[2])
                 offset == (w - new_width) \div 2
             IN  <<offset, 0, offset + new_width, h>>
        ELSE LET new_height == FloorDiv(w * target[2], target[1])
                 offset == (h - new_height) \div 2
             IN  <<0, offset, w, offset + new_height>>

\* img.resize(size, LANCZOS) raises ValueError unless both sides are >= 1
ResizeOk(size) == size[1] >= 1 /\ size[2] >= 1

Modes == {"fit", "fill", "stretch", "pad", "crop"}

Failure(target) ==
    [success |-> FALSE, target |-> target, crop |-> <<>>, new_size |-> <<>>]

\* what the codec does with a file: it opens and saves it, Image.open
\* raises, or the transform or resized.save raises
Codecs == {"ok", "open fails", "save fails"}

\* resize_image up to 'new_size'.  Every exception ends in the except
\* clause and success=False; target is <<>> when Image.open raised and no
\* target size was computed.  ImageOps.pad brings the thumbnail to the
\* target size.
ResizeImage(nat, width, height, mode, codec, tie_up) ==
    LET target == TargetSize(nat, width, height)
    IN  IF codec = "open fails" THEN Failure(<<>>)
        ELSE IF codec = "save fails" THEN Failure(target)
        ELSE IF mode = "fit"
        THEN LET t == Thumbnail(nat, target, tie_up)
             IN  IF t.ok
                 THEN [success |-> TRUE, target |-> target, crop |-> <<>>,
                       new_size |-> t.size]
                 ELSE Failure(target)
        ELSE IF mode = "fill"
        THEN IF target[2] = 0 \/ ~ResizeOk(target) THEN Failure(target)
             ELSE [success |-> TRUE, target |-> target,
                   crop |-> FillCrop(nat, target), new_size |-> target]
        ELSE IF mode = "stretch"
        THEN IF ResizeOk(target)
             THEN [success |-> TRUE, target |-> target, crop |-> <<>>,
                   new_size |-> target]
             ELSE Failure(target)
        ELSE IF mode = "pad"
        THEN IF Thumbnail(nat, target, tie_up).ok
             THEN [success |-> TRUE, target |-> target, crop |-> <<>>,
                   new_size |-> target]
             ELSE Failure(target)
        ELSE Failure(target)

----------------------------------------------------------------------------
(* The file system and the options of a batch.  The input folder is the    *)
(* directory <<"in">>; only files are kept, directories exist as needed    *)
(* (mkdir(parents=True, exist_ok=True)).                                   *)

InputFolder == <<"in">>

File(dir, name) == [dir |-> dir, name |-> name]

\* the files the input tree may hold before the first run: two names that
\* differ in the case of the extension only, a second format, a file in a
\* subdirectory and one whose extension is in neither case of the allow-list
InputUniverse ==
    { File(<<"in">>, <<"a",".","j","p","g">>),
      File(<<"in">>, <<"a",".","J","P","G">>),
      File(<<"in">>, <<"b",".","p","n","g">>),
      File(<<"in", "sub">>, <<"a",".","j","p","g">>),
      File(<<"in">>, <<"c",".","J","p","g">>) }

\* output_folder: elsewhere, the default input_folder / 'resized', or the
\* input folder itself
OutputFolders == { <<"out">>, <<"in", "resized">>, <<"in">> }

Options ==
    [ sequential : BOOLEAN, overwrite : BOOLEAN, recursive : BOOLEAN,
      output_format : {"", "PNG"},
      prefix : { <<>>, <<"r","_">> },
      suffix : { <<>> },
      output_folder : OutputFolders ]

\* str(e) of the exception that resize_image caught
Messages == {"cannot identify image file", "cannot write mode"}

IsPrefix(p, d) == Len(p) <= Len(d) /\ SubSeq(d, 1, Len(p)) = p

\* glob(f'*{ext}') or glob(f'*{ext.upper()}') for an ext of
\* SUPPORTED_FORMATS, on a file system whose names are case-sensitive
Supported(name) ==
    \E ext \in SUPPORTED_FORMATS : EndsWith(name, ext) \/ EndsWith(name, Upper(ext))

\* "Find all images": rglob descends, glob does not
Discovered(files, recursive) ==
    { f \in files :
        /\ Supported(f.name)
        /\ IF recursive THEN IsPrefix(InputFolder, f.dir) ELSE f.dir = InputFolder }

\* the orders in which the globs may list a set of files
Orderings(S) ==
    { o \in [1..Cardinality(S) -> S] :
        \A i, j \in 1..Cardinality(S) : i # j => o[i] # o[j] }

\* rel_path.parent joined to the output folder when recursive
OutDir(img) ==
    IF opts.recursive
    THEN opts.output_folder \o SubSeq(img.dir, Len(InputFolder) + 1, Len(img.dir))
    ELSE opts.output_folder

\* "Generate output path" of the loop body
OutputPath(img, ctr) ==
    generate_output_filename(img.name, OutDir(img), opts.prefix, opts.suffix,
                             IF opts.sequential THEN <<ctr>> ELSE <<>>,
                             opts.output_format)

\* output_path.exists() and not overwrite
MustSkip(dest, files, overwrite) == dest \in files /\ ~overwrite

Entry(img, event, msg, dest) ==
    [file |-> img, event |-> event, msg |-> msg, dest |-> dest,
     counter |-> counter]

NoPrev == [n |-> 0, processed |-> 0, failed |-> 0, ran |-> FALSE]

----------------------------------------------------------------------------
(* ImageResizer.process_folder.  log is the history of the loop of the     *)
(* current run: one entry per file visited, with what was done to it;      *)
(* calls counts the invocations of resize_image in the current run.        *)

Init ==
    /\ fs \in { S \in SUBSET InputUniverse : Cardinality(S) <= MaxFiles }
    /\ opts \in Options
    /\ run = "first"
    /\ pc = "start"
    /\ image_files = <<>>
    /\ idx = 1
    /\ counter = 1
    /\ processed = 0
    /\ failed = 0
    /\ errors = <<>>
    /\ log = <<>>
    /\ calls = 0
    /\ prev = NoPrev
    /\ naming = [state |-> "unused"]
    /\ geom = [state |-> "unused"]

\* "No images found": the early return
DiscoverNone ==
    /\ pc = "start"
    /\ Discovered(fs, opts.recursive) = {}
    /\ pc' = "noimages"
    /\ UNCHANGED <<fs, opts, run, image_files, idx, counter, processed, failed,
                   errors, log, calls, prev, naming, geom>>

\* the discovery, and the loop is entered with counter = 1
Discover ==
    /\ pc = "start"
    /\ Discovered(fs, opts.recursive) # {}
    /\ Cardinality(Discovered(fs, opts.recursive)) <= MaxFiles
    /\ image_files' \in Orderings(Discovered(fs, opts.recursive))
    /\ idx' = 1
    /\ counter' = 1
    /\ pc' = "loop"
    /\ UNCHANGED <<fs, opts, run, processed, failed, errors, log, calls, prev,
                   naming, geom>>

InLoop == pc = "loop" /\ idx <= Len(image_files)

\* the mutation of Skip: the sequence counter moves on at a skipped file
SkipCounting ==
    /\ InLoop
    /\ MustSkip(OutputPath(image_files[idx], counter), fs, opts.overwrite)
    /\ log' = Append(log, Entry(image_files[idx], "skip", "",
                                OutputPath(image_files[idx], counter)))
    /\ idx' = idx + 1
    /\ counter' = counter + 1
    /\ UNCHANGED <<fs, opts, run, pc, image_files, processed, failed,
                   errors, calls, prev, naming, geom>>

\* "Skipping ... (already exists)": continue
Skip ==
    /\ InLoop
    /\ MustSkip(OutputPath(image_files[idx], counter), fs, opts.overwrite)
    /\ log' = Append(log, Entry(image_files[idx], "skip", "",
                                OutputPath(image_files[idx], counter)))
    /\ idx' = idx + 1
    /\ UNCHANGED <<fs, opts, run, pc, image_files, counter, processed, failed,
                   errors, calls, prev, naming, geom>>

\* the mutation of Processed: the sequence counter is left where it was
ProcessedSameCounter ==
    /\ InLoop
    /\ ~MustSkip(OutputPath(image_files[idx], counter), fs, opts.overwrite)
    /\ fs' = fs \cup {OutputPath(image_files[idx], counter)}
    /\ log' = Append(log, Entry(image_files[idx], "ok", "",
                                OutputPath(image_files[idx], counter)))
    /\ processed' = processed + 1
    /\ calls' = calls + 1
    /\ idx' = idx + 1
    /\ UNCHANGED <<opts, run, pc, image_files, counter, failed, errors, prev,
                   naming, geom>>

\* resize_image returned success=True: the destination is written
Processed ==
    /\ InLoop
    /\ ~MustSkip(OutputPath(image_files[idx], counter), fs, opts.overwrite)
    /\ fs' = fs \cup {OutputPath(image_files[idx], counter)}
    /\ log' = Append(log, Entry(image_files[idx], "ok", "",
                                OutputPath(image_files[idx], counter)))
    /\ processed' = processed + 1
    /\ calls' = calls + 1
    /\ counter' = counter + 1
    /\ idx' = idx + 1
    /\ UNCHANGED <<opts, run, pc, image_files, failed, errors, prev,
                   naming, geom>>

\* the mutation of Failed: the failure ends the loop
FailedAborting ==
    /\ InLoop
    /\ ~MustSkip(OutputPath(image_files[idx], counter), fs, opts.overwrite)
    /\ \E msg \in Messages :
          /\ errors' = Append(errors, <<image_files[idx].name, msg>>)
          /\ log' = Append(log, Entry(image_files[idx], "fail", msg,
                                      OutputPath(image_files[idx], counter)))
    /\ failed' = failed + 1
    /\ calls' = calls + 1
    /\ idx' = Len(image_files) + 1
    /\ UNCHANGED <<fs, opts, run, pc, image_files, counter, processed, prev,
                   naming, geom>>

\* the mutation of Failed: the failure is counted but not listed
FailedUnlisted ==
    /\ InLoop
    /\ ~MustSkip(OutputPath(image_files[idx], counter), fs, opts.overwrite)
    /\ \E msg \in Messages :
          log' = Append(log, Entry(image_files[idx], "fail", msg,
                                   OutputPath(image_files[idx], counter)))
    /\ failed' = failed + 1
    /\ calls' = calls + 1
    /\ idx' = idx + 1
    /\ UNCHANGED <<fs, opts, run, pc, image_files, counter, processed, errors,
                   prev, naming, geom>>

\* resize_image returned success=False with the message of the exception; a
\* destination that was not there before is not there afterwards
Failed ==
    /\ InLoop
    /\ ~MustSkip(OutputPath(image_files[idx], counter), fs, opts.overwrite)
    /\ \E msg \in Messages :
          /\ errors' = Append(errors, <<image_files[idx].name, msg>>)
          /\ log' = Append(log, Entry(image_files[idx], "fail", msg,
                                      OutputPath(image_files[idx], counter)))
    /\ failed' = failed + 1
    /\ calls' = calls + 1
    /\ idx' = idx + 1
    /\ UNCHANGED <<fs, opts, run, pc, image_files, counter, processed, prev,
                   naming, geom>>

\* "Summary": the loop is over
Summary ==
    /\ pc = "loop"
    /\ idx > Len(image_files)
    /\ pc' = "summary"
    /\ UNCHANGED <<fs, opts, run, image_files, idx, counter, processed, failed,
                   errors, log, calls, prev, naming, geom>>

\* the callers run a batch on a new ImageResizer(): the same folder and
\* options a second time
Rerun ==
    /\ pc \in {"summary", "noimages"}
    /\ run = "first"
    /\ run' = "rerun"
    /\ prev' = [n |-> Len(image_files), processed |-> processed,
                failed |-> failed, ran |-> TRUE]
    /\ pc' = "start"
    /\ image_files' = <<>>
    /\ idx' = 1
    /\ counter' = 1
    /\ processed' = 0
    /\ failed' = 0
    /\ errors' = <<>>
    /\ log' = <<>>
    /\ calls' = 0
    /\ UNCHANGED <<fs, opts, naming, geom>>

Next ==
    \/ DiscoverNone
    \/ Discover
    \/ Skip
    \/ Processed
    \/ Failed
    \/ Summary
    \/ Rerun

Spec == Init /\ [][Next]_vars

----------------------------------------------------------------------------
(* generate_output_filename on its own: one call on drawn arguments.  The  *)
(* input name is put together from a stem and an extension, so that what   *)
(* the function makes of the name can be compared with its two pieces.     *)

NameStems == { <<"a">>, <<"p","h","o","t","o">>, <<".","h">> }

NameExts ==
    { <<".","j","p","g">>, <<".","J","P","G">>, <<".","P","n","g">>,
      <<".","t","i","f","f">>, <<>> }

NamePrefixes == { <<>>, <<"r","e","s","i","z","e","d","_">> }

NameSuffixes == { <<>>, <<"_","s">> }

NameCounters == { <<>>, <<9999>>, <<10000>> } \cup { <<n>> : n \in 1..MaxCounter }

NameFormats == { "", "JPEG", "PNG", "WEBP", "BMP", "GIF", "TIFF" }

BatchUnused ==
    /\ fs = {}
    /\ opts = [sequential |-> FALSE, overwrite |-> FALSE, recursive |-> FALSE,
               output_format |-> "", prefix |-> <<>>, suffix |-> <<>>,
               output_folder |-> <<"out">>]
    /\ run = "first"
    /\ pc = "unused"
    /\ image_files = <<>>
    /\ idx = 1
    /\ counter = 1
    /\ processed = 0
    /\ failed = 0
    /\ errors = <<>>
    /\ log = <<>>
    /\ calls = 0
    /\ prev = NoPrev

InitName ==
    /\ BatchUnused
    /\ geom = [state |-> "unused"]
    /\ naming \in [ stem : NameStems, ext : NameExts, prefix : NamePrefixes,
                    suffix : NameSuffixes, ctr : NameCounters,
                    output_format : NameFormats, output_dir : OutputFolders,
                    state : {"idle"}, out : {File(<<>>, <<>>)} ]

GenerateOutputFilename ==
    /\ naming.state = "idle"
    /\ naming' = [naming EXCEPT
                    !.state = "done",
                    !.out = generate_output_filename(
                                naming.stem \o naming.ext, naming.output_dir,
                                naming.prefix, naming.suffix, naming.ctr,
                                naming.output_format)]
    /\ UNCHANGED <<batchVars, geom>>

NextName == GenerateOutputFilename

SpecName == InitName /\ [][NextName]_vars

----------------------------------------------------------------------------
(* resize_image on its own: one call on a drawn image and request.         *)

InitGeom ==
    /\ BatchUnused
    /\ naming = [state |-> "unused"]
    /\ geom \in [ nat : (1..MaxDim) \X (1..MaxDim), width : 0..MaxReq,
                  height : 0..MaxReq, mode : Modes, state : {"idle"},
                  result : {Failure(<<>>)} ]

ResizeImageCall ==
    /\ geom.state = "idle"
    /\ \E codec \in Codecs, tie_up \in BOOLEAN :
          geom' = [geom EXCEPT
                     !.state = "done",
                     !.result = ResizeImage(geom.nat, geom.width, geom.height,
                                            geom.mode, codec, tie_up)]
    /\ UNCHANGED <<batchVars, naming>>

NextGeom == ResizeImageCall

SpecGeom == InitGeom /\ [][NextGeom]_vars

----------------------------------------------------------------------------
(* Properties of the batch run (Spec).                                     *)

IsDigit(c) == \E i \in DOMAIN DigitChars : DigitChars[i] = c

DigitValue(c) == (CHOOSE i \in DOMAIN DigitChars : DigitChars[i] = c) - 1

RECURSIVE DecimalValue(_)
DecimalValue(d) ==
    IF d = <<>> THEN 0
    ELSE 10 * DecimalValue(SubSeq(d, 1, Len(d) - 1)) + DigitValue(d[Len(d)])

\* the number of entries of the first n of a history with the given event
CountEvents(h, n, event) == Cardinality({ i \in 1..n : h[i].event = event })

\* C1: a failure of resize_image on a discovered file never aborts the
\* batch.  Whatever failed before, the files before the current one have
\* all been visited in discovery order; every step of the loop, a failing
\* one included, visits the current file and moves on to the next one; the
\* step after the last file is the summary, and at the summary every
\* discovered file has been visited.
C1_FailureNeverAborts ==
    /\ [](pc \in {"loop", "summary"} =>
            /\ Len(log) = idx - 1
            /\ \A i \in 1..Len(log) : log[i].file = image_files[i])
    /\ [](pc = "summary" => Len(log) = Len(image_files))
    /\ [][InLoop => /\ pc' = "loop"
                    /\ idx' = idx + 1
                    /\ Len(log') = idx
                    /\ log'[idx].file = image_files[idx]
                    /\ image_files' = image_files]_vars
    /\ [][(pc = "loop" /\ ~InLoop) => pc' = "summary"]_vars

\* a finished run in which a file failed and the file after it was written
C1_Witness ==
    /\ pc = "summary"
    /\ \E i \in 1..(Len(log) - 1) :
          log[i].event = "fail" /\ log[i + 1].event = "ok"

\* C2: after a run in which every discovered file succeeded, a second run
\* with overwrite=False and the same folder and options invokes
\* resize_image for no file and adds no failure.
C2_RerunReprocessesNothing ==
    (run = "rerun" /\ prev.ran /\ prev.processed = prev.n /\ ~opts.overwrite)
        => (calls = 0 /\ processed = 0 /\ failed = 0)

\* C3 as stated: with sequential=True the i-th discovered file is written
\* under a stem that ends in "_" and i padded to 4 digits.
C3_CounterIsDiscoveryIndex ==
    (pc = "summary" /\ opts.sequential) =>
        \A i \in 1..Len(image_files) :
            /\ log[i].event = "ok"
            /\ log[i].counter = i
            /\ EndsWith(PathStem(log[i].dest.name), <<"_">> \o Format04d(i))

\* C3, amended: with sequential=True the k-th file of a run whose transform
\* succeeds is written under a stem that ends in "_" and k as 4 decimal
\* digits; a skipped or failed file uses up no counter value, and the
\* stems written in one run are distinct.
C3_CounterIsSuccessIndex ==
    opts.sequential =>
        /\ \A i \in 1..Len(log) :
              log[i].event = "ok" =>
                 LET k == CountEvents(log, i, "ok")
                     stem == PathStem(log[i].dest.name)
                     tail == SubSeq(stem, Len(stem) - PadWidth + 1, Len(stem))
                 IN  /\ log[i].counter = k
                     /\ Len(stem) > PadWidth
                     /\ stem[Len(stem) - PadWidth] = "_"
                     /\ \A j \in 1..PadWidth : IsDigit(tail[j])
                     /\ DecimalValue(tail) = k
                     /\ log[i].dest \in fs
        /\ \A i, j \in 1..Len(log) :
              (i < j /\ log[i].event = "ok" /\ log[j].event = "ok") =>
                 PathStem(log[i].dest.name) # PathStem(log[j].dest.name)

\* a sequential run in which a file failed and a later one was written
C3_Witness ==
    /\ opts.sequential
    /\ \E i, j \in 1..Len(log) :
          i < j /\ log[i].event = "fail" /\ log[j].event = "ok"

\* C4: two different files of one discovered list never get the same
\* destination path.
C4_DestinationsDistinct ==
    \A i, j \in 1..Len(log) :
        (i # j /\ log[i].file # log[j].file) => log[i].dest # log[j].dest

\* C5: when the destination of the current file exists and overwrite is
\* False, the step of the loop invokes resize_image not at all, writes no
\* file and leaves processed, failed, errors and the sequence counter as
\* they are; the loop moves on to the next file.
C5_SkipChangesNothing ==
    [][ (InLoop /\ OutputPath(image_files[idx], counter) \in fs
                /\ ~opts.overwrite)
          => /\ calls' = calls
             /\ fs' = fs
             /\ processed' = processed
             /\ failed' = failed
             /\ errors' = errors
             /\ counter' = counter
             /\ idx' = idx + 1
             /\ pc' = pc ]_vars

\* a file has been skipped in a sequential run
C5_Witness ==
    /\ opts.sequential
    /\ \E i \in 1..Len(log) : log[i].event = "skip"

\* the (filename, message) pairs of the failures of a history, in order
RECURSIVE FailuresOf(_)
FailuresOf(h) ==
    IF h = <<>> THEN <<>>
    ELSE LET e == h[Len(h)]
             before == FailuresOf(SubSeq(h, 1, Len(h) - 1))
         IN  IF e.event = "fail"
             THEN Append(before, <<e.file.name, e.msg>>)
             ELSE before

\* C6: in a run on a new ImageResizer, errors lists the files whose
\* transform failed, each once with its name and message and in discovery
\* order, and nothing else; failed is the length of errors and processed is
\* the number of files whose transform succeeded.
C6_SummaryMatchesOutcomes ==
    pc \in {"loop", "summary"} =>
        /\ errors = FailuresOf(log)
        /\ failed = Len(errors)
        /\ failed = CountEvents(log, Len(log), "fail")
        /\ processed = CountEvents(log, Len(log), "ok")

\* a finished run with a failure followed by a success
C6_Witness ==
    /\ pc = "summary"
    /\ failed = 1
    /\ processed = 1
    /\ log[1].event = "fail"

----------------------------------------------------------------------------
(* Properties of generate_output_filename (SpecName).                      *)

\* the canonical extension of an output format, as the format table of the
\* specification lists it
C7_FormatExt(output_format) ==
    CASE output_format = "JPEG" -> <<".","j","p","g">>
      [] output_format = "PNG"  -> <<".","p","n","g">>
      [] output_format = "WEBP" -> <<".","w","e","b","p">>
      [] output_format = "BMP"  -> <<".","b","m","p">>
      [] output_format = "GIF"  -> <<".","g","i","f">>
      [] OTHER                  -> <<".","j","p","g">>

\* the extensions of NameExts in lower case
C7_LowerExt(ext) ==
    CASE ext = <<".","J","P","G">> -> <<".","j","p","g">>
      [] ext = <<".","P","n","g">> -> <<".","p","n","g">>
      [] OTHER                     -> ext

\* C7: the generated path is output_dir joined with prefix + stem + suffix
\* + ("_" + the counter in at least 4 decimal digits, zero-padded, when a
\* counter is given) + the extension, which is the canonical one of
\* output_format (.jpg for a format that is not in the table) or, without
\* output_format, the original extension in lower case.
C7_NameComposition ==
    /\ naming.state = "done" =>
          LET name == naming.out.name
              head == naming.prefix \o naming.stem \o naming.suffix
              ext  == IF naming.output_format # ""
                      THEN C7_FormatExt(naming.output_format)
                      ELSE C7_LowerExt(naming.ext)
              mid  == SubSeq(name, Len(head) + 1, Len(name) - Len(ext))
          IN  /\ naming.out.dir = naming.output_dir
              /\ Len(name) >= Len(head) + Len(ext)
              /\ SubSeq(name, 1, Len(head)) = head
              /\ EndsWith(name, ext)
              /\ IF naming.ctr = <<>> THEN mid = <<>>
                 ELSE /\ Len(mid) >= 1 + PadWidth
                      /\ mid[1] = "_"
                      /\ \A i \in 2..Len(mid) : IsDigit(mid[i])
                      /\ DecimalValue(Tail(mid)) = naming.ctr[1]
                      /\ Len(mid) > 1 + PadWidth => mid[2] # "0"
    /\ naming.state = "done" =>
          generate_output_filename(<<"p","h","o","t","o",".","J","P","G">>,
                                   <<"out">>,
                                   <<"r","e","s","i","z","e","d","_">>,
                                   <<>>, <<>>, "PNG")
             = File(<<"out">>, <<"r","e","s","i","z","e","d","_",
                                  "p","h","o","t","o",".","p","n","g">>)

\* a name made of a prefix, a suffix, a counter and an upper-case extension
C7_Witness ==
    /\ naming.state = "done"
    /\ naming.prefix # <<>>
    /\ naming.suffix # <<>>
    /\ naming.ctr # <<>>
    /\ naming.output_format = ""
    /\ naming.ext = <<".","J","P","G">>
    /\ EndsWith(naming.out.name, <<"_","s","_","0","0","1","2",".","j","p","g">>)

----------------------------------------------------------------------------
(* Properties of the size computation (SpecGeom).                          *)

FitDone ==
    geom.state = "done" /\ geom.mode = "fit" /\ geom.result.success

\* C8 as stated: the result of 'fit' is inside the target, and one of its
\* sides is within 1px of the same side of the target, also for an image
\* smaller than the target on both sides.
C8_FitReachesTarget ==
    FitDone =>
        LET new == geom.result.new_size
            target == geom.result.target
        IN  /\ new[1] <= target[1]
            /\ new[2] <= target[2]
            /\ Abs(new[1] - target[1]) <= 1 \/ Abs(new[2] - target[2]) <= 1

\* C8, amended: the result of 'fit' is inside the target; an image that is
\* larger than the target on some side comes out with one side equal to the
\* same side of the target, and an image that is inside the target keeps
\* its natural size (fit scales down, never up).
C8_FitInsideTarget ==
    FitDone =>
        LET new == geom.result.new_size
            target == geom.result.target
            nat == geom.nat
        IN  /\ new[1] >= 1 /\ new[1] <= target[1]
            /\ new[2] >= 1 /\ new[2] <= target[2]
            /\ IF nat[1] <= target[1] /\ nat[2] <= target[2]
               THEN new = nat
               ELSE new[1] = target[1] \/ new[2] = target[2]

\* 'fit' of an image that is smaller than the target by more than 1px on
\* both sides
C8_Witness ==
    /\ FitDone
    /\ geom.nat[1] + 1 < geom.result.target[1]
    /\ geom.nat[2] + 1 < geom.result.target[2]

FillDone ==
    /\ geom.state = "done" /\ geom.mode = "fill" /\ geom.result.success
    /\ geom.width # 0 /\ geom.height # 0

\* C9: 'fill' with both dimensions given ends in exactly the target size;
\* the crop box lies in the source, takes all of the height and a centered
\* part of the width of floor(height * target aspect) when the source
\* aspect is the larger one, and all of the width and a centered part of
\* the height otherwise; the two margins differ by 1px at most.
C9_FillCentered ==
    /\ FillDone =>
          LET w == geom.nat[1]
              h == geom.nat[2]
              tw == geom.width
              th == geom.height
              box == geom.result.crop
          IN  /\ geom.result.target = <<tw, th>>
              /\ geom.result.new_size = <<tw, th>>
              /\ 0 <= box[1] /\ box[1] <= box[3] /\ box[3] <= w
              /\ 0 <= box[2] /\ box[2] <= box[4] /\ box[4] <= h
              /\ IF w * th > tw * h
                 THEN /\ box[2] = 0 /\ box[4] = h
                      /\ Abs(box[1] - (w - box[3])) <= 1
                      /\ (box[3] - box[1]) * th <= h * tw
                      /\ h * tw < (box[3] - box[1] + 1) * th
                 ELSE /\ box[1] = 0 /\ box[3] = w
                      /\ Abs(box[2] - (h - box[4])) <= 1
                      /\ (box[4] - box[2]) * tw <= w * th
                      /\ w * th < (box[4] - box[2] + 1) * tw
    /\ geom.state = "done" =>
          FillCrop(<<4000, 3000>>, <<1000, 1000>>) = <<500, 0, 3500, 3000>>

\* 'fill' that crops the width with margins of different size
C9_Witness ==
    /\ FillDone
    /\ geom.result.crop[2] = 0
    /\ geom.result.crop[1] >= 1
    /\ geom.result.crop[1] # geom.nat[1] - geom.result.crop[3]

\* C10: the resolved target size has no side of 0: with one of width and
\* height requested the other side is the proportional value rounded to
\* the nearest integer and at least 1; with both it is (width, height) and
\* with neither it is the natural size.
C10_TargetNeverZero ==
    (geom.state = "done" /\ geom.result.target # <<>>) =>
        LET w == geom.nat[1]
            h == geom.nat[2]
            target == geom.result.target
        IN  IF geom.width # 0 /\ geom.height # 0
            THEN target = <<geom.width, geom.height>>
            ELSE IF geom.width # 0
            THEN /\ target[1] = geom.width
                 /\ target[2] >= 1
                 /\ \/ 2 * Abs(target[2] * w - h * geom.width) <= w
                    \/ target[2] = 1 /\ 2 * h * geom.width < w
            ELSE IF geom.height # 0
            THEN /\ target[2] = geom.height
                 /\ target[1] >= 1
                 /\ \/ 2 * Abs(target[1] * h - w * geom.height) <= h
                    \/ target[1] = 1 /\ 2 * w * geom.height < h
            ELSE target = <<w, h>>

====
